---- MODULE Spec2Model ----
(***************************************************************************)
(* Freshness validation of time-partitioned MongoDB data.                  *)
(*                                                                         *)
(* The model follows one run of generate_report (table_data_vatify.py):    *)
(* parameter validation, opening the storage session, the batch over       *)
(* collections x chain ids, the strict "today" validation of the special   *)
(* chain, the per-chain notifications and the release of the session.      *)
(* A run of the stand-alone strict validator (main of                      *)
(* validate_today_data.py) over the same configuration is the second       *)
(* program.                                                                *)
(*                                                                         *)
(* Time is counted in ticks (TicksPerHour per hour) since 00:00 UTC of day *)
(* 0.  A date is a day number.  An aware datetime is a record [t, off]:    *)
(* the instant t in UTC ticks and the UTC offset of its tzinfo in ticks;   *)
(* strftime and .date() render it at that offset.                          *)
(***************************************************************************)
EXTENDS Integers, Sequences, FiniteSets, TLC

VARIABLES
    collection_list,      \* config['collections']
    chain_id_list,        \* config['chainIds']
    special_chain_id,     \* config['special_validation_chain_id']
    webhook,              \* config['wechat']['webhook']
    db,                   \* storage: (collection, chain int) -> set of stored create_time values
    pc,                   \* position in generate_report
    i,                    \* index of the current collection in collection_list
    j,                    \* index of the current chain id in chain_id_list
    client,               \* "unbound" | "open" | "closed": the local variable client
    results,              \* the list results (rows of the batch)
    csv,                  \* rows appended to the CSV file after the header
    queries,              \* log of the storage calls issued, in order
    faults,               \* number of calls to the storage or the webhook that failed so far
    special_validation_result,  \* result of validate_special_chain_today_data
    yesterday_date,       \* the local variable yesterday_date (line 787)
    chain_idx,            \* position in the notification loop over chain_data
    sent,                 \* log of the notification steps: messages sent and sleeps
    pending,              \* return value waiting for the finally clause
    outcome,              \* value returned by generate_report
    close_calls,          \* number of client.close() calls that were executed
    close_raised,         \* TRUE when the finally clause itself raised
    today_results         \* validate_all_chains_today_data over the same configuration

vars == <<collection_list, chain_id_list, special_chain_id, webhook,
          db, pc, i, j, client, results, csv, queries, faults,
          special_validation_result, yesterday_date, chain_idx, sent, pending,
          outcome, close_calls, close_raised, today_results>>

----------------------------------------------------------------------------
(* Bounds of the model *)

\* Ticks per hour: the granularity of stored timestamps.
TicksPerHour == 2

\* Largest number of documents stored in the whole database.
MaxDocs == 2

\* Largest number of calls to the storage or to the webhook that fail in one run.
MaxFaults == 1

----------------------------------------------------------------------------
(* Time *)

HoursPerDay == 24

\* pytz.timezone('Asia/Shanghai'): UTC+8, no daylight saving.
CstOffsetHours == 8

TicksPerDay == HoursPerDay * TicksPerHour

CstOffset == CstOffsetHours * TicksPerHour

\* The instant at which the wall clock of the reporting timezone shows the
\* given day, hour and tick of the hour.
AtCst(day, hour, tick) == (day * HoursPerDay + hour) * TicksPerHour + tick - CstOffset

\* The day of the run in the reporting timezone.
RunDay == 2

\* The instant of the run: 09:00 of RunDay in the reporting timezone, which
\* is 01:00 UTC of the same day.
Now == AtCst(RunDay, 9, 0)

\* pytz.utc.localize(naive): the naive value is taken as UTC.
UtcLocalize(t) == [type |-> "datetime", t |-> t, off |-> 0]

\* dt.astimezone(cst_tz): the same instant, rendered in Asia/Shanghai.
AsTimezoneCst(dt) == [type |-> "datetime", t |-> dt.t, off |-> CstOffset]

\* dt.strftime('%Y-%m-%d') and dt.date(): the calendar day at dt's own offset.
DateOf(dt) == (dt.t + dt.off) \div TicksPerDay

\* A rounding that always moves to an earlier top of the hour.
EarlierHour(dt) == [dt EXCEPT !.t = dt.t - 1 - ((dt.t - 1 + dt.off) % TicksPerHour)]

\* dt.replace(minute=0, second=0, microsecond=0): the top of dt's hour at
\* dt's own offset.
ReplaceMinuteZero(dt) == [dt EXCEPT !.t = dt.t - ((dt.t + dt.off) % TicksPerHour)]

\* roundDownToHour of the spec: convert to the reporting timezone, then zero
\* the minutes (lines 630-635).
RoundDownToHour(dt) == ReplaceMinuteZero(AsTimezoneCst(dt))

\* civilDate of the spec: the calendar day in the reporting timezone.
CivilDate(t) == DateOf(AsTimezoneCst(UtcLocalize(t)))

\* datetime.now(cst_tz)
NowCst == AsTimezoneCst(UtcLocalize(Now))

\* today_start_utc and today_end_utc (lines 212-217): the first and the last
\* tick of now's calendar day in the reporting timezone.
TodayStartUtc == Now - ((Now + CstOffset) % TicksPerDay)

TodayEndUtc == TodayStartUtc + TicksPerDay - 1

\* Naive datetime.now(): the wall clock of the machine's local zone.
LocalToday(offset) == (Now + offset) \div TicksPerDay

----------------------------------------------------------------------------
(* Storage *)

Collections == {"order_c", "order_m"}

\* Chain ids as the configuration writes them; "abc" is no integer.
ChainIds == {"1001", "1002", "abc"}

NumericIds == {"1001", "1002"}

\* int(chain_id): defined on the numeric ids, ValueError otherwise.
IntOf(s) == IF s = "1001" THEN 1001 ELSE 1002

ChainInts == {IntOf(s) : s \in NumericIds}

\* Stored create_time values: datetimes without timezone (instants in UTC
\* ticks), and one string that matches none of the known formats.
Instants == {AtCst(RunDay - 1, 12, 1),   \* yesterday 12:30 CST: yesterday in UTC too
             AtCst(RunDay, 2, 1),         \* today 02:30 CST: yesterday in UTC
             AtCst(RunDay + 1, 1, 0)}     \* tomorrow 01:00 CST, a top of the hour

DatetimeValue(t) == [type |-> "datetime", t |-> t]

MalformedString == [type |-> "str", t |-> 0]

StoredValues == {DatetimeValue(t) : t \in Instants} \cup {MalformedString}

Partitions == Collections \X ChainInts

\* The documents that may be stored: every value for the first chain, and
\* for the second chain a create_time of today's small hours.
FirstChain == IntOf("1001")

SecondChainValues == {DatetimeValue(AtCst(RunDay, 2, 1))}

Cells == {c \in Partitions \X StoredValues :
             c[1][2] = FirstChain \/ c[2] \in SecondChainValues}

\* The databases with at most MaxDocs documents.
DbOf(S) == [p \in Partitions |-> {v \in StoredValues : <<p, v>> \in S}]

Databases == {DbOf(S) : S \in {T \in SUBSET Cells : Cardinality(T) <= MaxDocs}}

\* BSON order of the values of one field: every date sorts above every string.
ValueLeq(a, b) ==
    \/ a.type = "str"
    \/ a.type = "datetime" /\ b.type = "datetime" /\ a.t <= b.t

\* find_one(filter, sort=[("create_time", DESCENDING)]): the document with
\* the largest create_time, None when the partition is empty.
NoneValue == [type |-> "None", t |-> 0]

FindLatest(docs) ==
    IF docs = {} THEN NoneValue
    ELSE CHOOSE d \in docs : \A e \in docs : ValueLeq(e, d)

\* A count that includes the bound itself.
CountFromBound(docs, bound) ==
    Cardinality({d \in docs : d.type = "datetime" /\ d.t >= bound})

\* count_documents with create_time > bound: dates only (a comparison never
\* matches a value of another type).
CountGreater(docs, bound) ==
    Cardinality({d \in docs : d.type = "datetime" /\ d.t > bound})

\* count_documents with today_start_utc <= create_time <= today_end_utc.
CountToday(docs) ==
    Cardinality({d \in docs : d.type = "datetime" /\ d.t >= TodayStartUtc /\ d.t <= TodayEndUtc})

\* count_documents({"chain_id": id}).
CountAll(docs) == Cardinality(docs)

\* One entry of the log of storage calls: the function that issued the call,
\* the operation, the collection, the chain id as configured, and whether
\* the call raised.
Call(caller, op, collection, chain_id, raised) ==
    [caller |-> caller, op |-> op, collection |-> collection,
     chain_id |-> chain_id, raised |-> raised]

----------------------------------------------------------------------------
(* Rows of the general batch (generate_report, lines 574-724) *)

IntCell(n) == [type |-> "int", n |-> n]

\* f"ERROR: {str(e)}" in the record_count column.
ErrorCell == [type |-> "str", n |-> 0]

\* The literal "ERROR" in the last_create_time column; len("ERROR").
ErrorMarkerLen == 5

ErrorMarker == [type |-> "str", t |-> 0, off |-> 0, len |-> ErrorMarkerLen]

NoneTime == [type |-> "None", t |-> 0, off |-> 0, len |-> 0]

AwareTime(dt) == [type |-> "datetime", t |-> dt.t, off |-> dt.off, len |-> 0]

Row(collection_name, chain_id, record_count, max_time) ==
    [collection |-> collection_name, chain_id |-> chain_id,
     record_count |-> record_count, max_time |-> max_time]

\* error_line (lines 713-719)
ErrorLine(collection_name, chain_id) ==
    Row(collection_name, chain_id, ErrorCell, ErrorMarker)

Faults == {"none", "find", "count"}

\* A processing that keeps a count for a value it could not read as a time.
CountKept(docs, collection_name, chain_id, latest, fault) ==
    [row |-> Row(collection_name, chain_id, IntCell(CountAll(docs)),
                 IF latest.type = "datetime" THEN AwareTime(UtcLocalize(latest.t))
                 ELSE NoneTime),
     calls |-> <<Call("generate_report", "count_documents", collection_name,
                      chain_id, fault = "count")>>]

\* Lines 604-656 for a document that was found: the row's max_create_time and
\* record_count, and the count call when it is reached.  A value that is no
\* datetime and matches no format stays a string, .tzinfo raises, and the
\* handler of line 653 resets both fields before any count is issued.
ProcessFound(docs, collection_name, chain_id, latest, fault) ==
    IF latest.type # "datetime"
    THEN [row |-> Row(collection_name, chain_id, IntCell(0), NoneTime),
          calls |-> <<>>]
    ELSE LET max_create_time == UtcLocalize(latest.t)
             rounded_hour == RoundDownToHour(max_create_time)
             record_count == IF fault = "count" THEN 0
                             ELSE CountGreater(docs, rounded_hour.t)
         IN [row |-> Row(collection_name, chain_id, IntCell(record_count),
                         AwareTime(max_create_time)),
             calls |-> <<Call("generate_report", "count_documents", collection_name,
                              chain_id, fault = "count")>>]

\* Lines 657-681: nothing found; a diagnostic count whose failure is logged.
ProcessNotFound(collection_name, chain_id, fault) ==
    [row |-> Row(collection_name, chain_id, IntCell(0), NoneTime),
     calls |-> <<Call("generate_report", "count_documents", collection_name,
                      chain_id, fault = "count")>>]

\* Lines 586-719 for a chain id that parsed: find_one, then the processing
\* of what it returned; a find_one that raises gives the error line.
ProcessParsed(database, collection_name, chain_id, fault) ==
    LET docs == database[<<collection_name, IntOf(chain_id)>>]
        find == <<Call("generate_report", "find_one", collection_name,
                       chain_id, fault = "find")>>
    IN IF fault = "find"
       THEN [row |-> ErrorLine(collection_name, chain_id), calls |-> find]
       ELSE LET latest_doc == FindLatest(docs)
                rest == IF latest_doc.type # "None"
                        THEN ProcessFound(docs, collection_name, chain_id,
                                          latest_doc, fault)
                        ELSE ProcessNotFound(collection_name, chain_id, fault)
            IN [row |-> rest.row, calls |-> find \o rest.calls]

\* A loop body that queries with the raw chain id before it parses it.
QueryBeforeParse(database, collection_name, chain_id, fault) ==
    IF chain_id \notin NumericIds
    THEN [row |-> ErrorLine(collection_name, chain_id),
          calls |-> <<Call("generate_report", "find_one", collection_name,
                           chain_id, TRUE)>>]
    ELSE ProcessParsed(database, collection_name, chain_id, fault)

\* The body of the loop over chain ids (lines 574-724): the row appended to
\* results and to the CSV file, and the storage calls issued for the pair.
\* int(chain_id_str) comes first (lines 577-584); its ValueError is answered
\* by the handler of line 711 with the error line.
ProcessChainId(database, collection_name, chain_id, fault) ==
    IF chain_id \notin NumericIds
    THEN [row |-> ErrorLine(collection_name, chain_id), calls |-> <<>>]
    ELSE ProcessParsed(database, collection_name, chain_id, fault)

\* The faults that can occur in the evaluation of a pair: a call raises only
\* if it is issued.
ApplicableFaults(database, collection_name, chain_id) ==
    {f \in Faults :
        \/ f = "none"
        \/ /\ chain_id \in NumericIds
           /\ \/ f = "find"
              \/ f = "count" /\
                 FindLatest(database[<<collection_name, IntOf(chain_id)>>]).type # "str"}

----------------------------------------------------------------------------
(* The strict validation of the special chain
   (validate_special_chain_today_data, lines 185-357) *)

SpecialFaults == {"none", "count_today", "count_total", "find"}

\* collection_result (lines 293-300) and the entry of the except clause
\* (lines 315-321).  The keys an error entry lacks are given the defaults
\* that the readers pass to .get().
CollectionResult(collection_name, success, today_count, total_count, latest, is_today) ==
    [collection |-> collection_name, success |-> success, error |-> FALSE,
     today_count |-> today_count, total_count |-> total_count,
     latest_create_time |-> latest, is_latest_today |-> is_today]

CollectionError(collection_name) ==
    [collection |-> collection_name, success |-> FALSE, error |-> TRUE,
     today_count |-> 0, total_count |-> 0,
     latest_create_time |-> NoneTime, is_latest_today |-> FALSE]

\* Lines 270-288: latest_create_time_str and is_today from the latest document.
LatestCst(latest_doc) ==
    IF latest_doc.type = "datetime"
    THEN AwareTime(AsTimezoneCst(UtcLocalize(latest_doc.t)))
    ELSE NoneTime

IsToday(latest_doc) ==
    /\ latest_doc.type = "datetime"
    /\ DateOf(AsTimezoneCst(UtcLocalize(latest_doc.t))) = DateOf(NowCst)

\* A verdict for which one of the two conditions is enough.
EitherSuffices(today_count, is_today) == today_count > 0 \/ is_today

\* A verdict that no partition passes.
NeverPasses(today_count, is_today) == FALSE

\* Line 291: there must be data of today and the latest record must be of today.
ValidationSuccess(today_count, is_today) == today_count > 0 /\ is_today

\* The records that another writer of the store may insert into the
\* partition between the two counts (lines 260-261) and find_one (line 264):
\* none, or a record of today.
ConcurrentWrites == {{}, {DatetimeValue(AtCst(RunDay, 2, 1))}}

\* The body of the loop over collections (lines 241-321).  The today count is
\* read from count_docs and the latest document from find_docs: the two
\* calls are separate reads of the partition.
ValidateCollection(count_docs, find_docs, collection_name, fault) ==
    IF fault # "none"
    THEN CollectionError(collection_name)
    ELSE LET today_count == CountToday(count_docs)
             total_count == CountAll(count_docs)
             latest_doc == FindLatest(find_docs)
             is_today == IsToday(latest_doc)
         IN CollectionResult(collection_name, ValidationSuccess(today_count, is_today),
                             today_count, total_count, LatestCst(latest_doc), is_today)

\* The storage calls of one pass of the loop, up to the one that raises.
ValidateCalls(caller, collection_name, chain_id, fault) ==
    LET today == Call(caller, "count_documents", collection_name, chain_id,
                      fault = "count_today")
        total == Call(caller, "count_documents", collection_name, chain_id,
                      fault = "count_total")
        find == Call(caller, "find_one", collection_name, chain_id, fault = "find")
    IN CASE fault = "count_today" -> <<today>>
         [] fault = "count_total" -> <<today, total>>
         [] OTHER -> <<today, total, find>>

\* The values of special_validation_result.
\* The three counts are keys of the full result only (lines 329-340); the
\* other results carry 0 for them.
NotRun == [enabled |-> FALSE, success |-> FALSE, error |-> FALSE, chain_id |-> "",
           validation_results |-> <<>>, total_collections |-> 0,
           successful_collections |-> 0, failed_collections |-> 0,
           complete |-> FALSE]

\* Lines 200-205: no special chain id is configured.
SpecialDisabled == [NotRun EXCEPT !.complete = TRUE]

\* Lines 228-235: the special chain id is no integer.
SpecialInvalid(chain_id) ==
    [SpecialDisabled EXCEPT !.enabled = TRUE, !.error = TRUE, !.chain_id = chain_id]

SpecialStarted(chain_id) ==
    [NotRun EXCEPT !.enabled = TRUE, !.chain_id = chain_id]

\* Lines 323-327: the counts and the overall success.
SuccessfulCollections(validation_results) ==
    Cardinality({k \in DOMAIN validation_results : validation_results[k].success})

FailedCollections(validation_results) ==
    Len(validation_results) - SuccessfulCollections(validation_results)

\* An overall verdict that one successful collection is enough for.
AnySucceeded(validation_results) ==
    validation_results = <<>> \/ SuccessfulCollections(validation_results) > 0

OverallSuccess(validation_results) == FailedCollections(validation_results) = 0

----------------------------------------------------------------------------
(* The stand-alone validator (validate_today_data.py).  The module uses pytz
   and pymongo names as table_data_vatify.py does; they are taken to resolve. *)

\* validate_today_create_time (lines 28-157) for one collection and chain id:
\* the same reads and the same verdict as the loop body above, with the chain
\* id parsed inside and every failure turned into an error result.
ValidateTodayCreateTime(database, collection_name, chain_id, fault, written) ==
    IF chain_id \notin NumericIds \/ fault # "none"
    THEN [chain_id |-> chain_id, result |-> CollectionError(collection_name)]
    ELSE LET docs == database[<<collection_name, IntOf(chain_id)>>]
             today_count == CountToday(docs)
             total_count == CountAll(docs)
             latest_doc == FindLatest(docs \cup written)
             is_today == IsToday(latest_doc)
         IN [chain_id |-> chain_id,
             result |-> CollectionResult(collection_name,
                                         ValidationSuccess(today_count, is_today),
                                         today_count, total_count,
                                         LatestCst(latest_doc), is_today)]

TodayCalls(collection_name, chain_id, fault) ==
    IF chain_id \notin NumericIds THEN <<>>
    ELSE ValidateCalls("validate_today_create_time", collection_name, chain_id, fault)

----------------------------------------------------------------------------
(* Messages *)

\* config['collection_mappings']: display names of the collections.  The
\* display name of order_c is the name of another collection that has a
\* display name of its own.
CollectionMappings ==
    [c \in {"order_c", "sub_orders"} |->
        IF c = "order_c" THEN "sub_orders" ELSE "legacy_sub_orders"]

\* collection_mappings.get(name, name)
DisplayTable(name) == IF name \in DOMAIN CollectionMappings THEN CollectionMappings[name] ELSE name

\* isinstance(item[3], int)
IsIntRow(item) == item.record_count.type = "int"

\* Lines 776-784: chain_data, a dict in insertion order.  Its keys are the
\* chain ids in the order of their first row that is no error row.
RECURSIVE ChainDataKeys(_)
ChainDataKeys(rows) ==
    IF rows = <<>> THEN <<>>
    ELSE LET init == SubSeq(rows, 1, Len(rows) - 1)
             last == rows[Len(rows)]
             keys == ChainDataKeys(init)
         IN IF IsIntRow(last) /\ \A k \in DOMAIN keys : keys[k] # last.chain_id
            THEN Append(keys, last.chain_id)
            ELSE keys

\* A grouping that hands every chain the rows of all chains.
AllItems(rows, chain_id) == SelectSeq(rows, IsIntRow)

\* Lines 776-784: chain_data[chain_id], the rows of the chain that are no
\* error rows, in the order of results.
ChainItems(rows, chain_id) ==
    LET Mine(item) == IsIntRow(item) /\ item.chain_id = chain_id
    IN SelectSeq(rows, Mine)

\* Lines 801-821: is the row an anomaly?  A datetime is compared by the date
\* its own strftime renders; a string of at least 10 characters by its prefix.
IsAnomaly(item, yesterday) ==
    /\ IsIntRow(item)
    /\ \/ item.max_time.type = "datetime" /\ DateOf(item.max_time) # yesterday
       \/ item.max_time.type = "str" /\ item.max_time.len >= 10

\* Lines 794-821: the anomalies of one chain, in the order of its items.
Anomalies(items, yesterday) ==
    LET Bad(item) == IsAnomaly(item, yesterday)
        bad == SelectSeq(items, Bad)
    IN [k \in DOMAIN bad |->
           [collection |-> DisplayTable(bad[k].collection),
            max_time |-> DateOf(bad[k].max_time)]]

RECURSIVE SumCounts(_)
SumCounts(items) ==
    IF items = <<>> THEN 0
    ELSE (IF IsIntRow(items[1]) THEN items[1].record_count.n ELSE 0)
         + SumCounts(Tail(items))

\* format_chain_markdown_message (lines 443-486): the total, the table of
\* anomalies with each name mapped again, or the "all data fresh" section.
FormatChainMarkdownMessage(chain_id, chain_data, anomalies) ==
    [kind |-> "chain", chain_id |-> chain_id,
     total_records |-> SumCounts(chain_data),
     anomalies |-> [k \in DOMAIN anomalies |->
                       [display_table |-> DisplayTable(anomalies[k].collection),
                        max_time |-> anomalies[k].max_time]],
     all_fresh |-> anomalies = <<>>]

\* A classification that looks at the today count before the error.
CountBeforeError(result) ==
    IF result.today_count = 0 THEN "NoTodayData"
    ELSE IF result.error THEN "QueryError"
    ELSE IF ~result.is_latest_today THEN "LatestNotToday"
    ELSE "DataAbnormal"

\* Lines 411-419: the problem shown for a failed result, first match wins.
Problem(result) ==
    IF result.error THEN "QueryError"
    ELSE IF result.today_count = 0 THEN "NoTodayData"
    ELSE IF ~result.is_latest_today THEN "LatestNotToday"
    ELSE "DataAbnormal"

RECURSIVE SumToday(_)
SumToday(rs) ==
    IF rs = <<>> THEN 0
    ELSE (IF rs[1].success THEN rs[1].today_count ELSE 0) + SumToday(Tail(rs))

\* format_special_validation_message (lines 360-440), for an enabled result.
FormatSpecialValidationMessage(special_result) ==
    LET NotOk(r) == ~r.success
        failed == SelectSeq(special_result.validation_results, NotOk)
    IN [kind |-> "special", chain_id |-> special_result.chain_id,
        total_records |-> SumToday(special_result.validation_results),
        anomalies |-> IF special_result.success THEN <<>>
                      ELSE [k \in DOMAIN failed |->
                               [display_table |-> DisplayTable(failed[k].collection),
                                problem |-> Problem(failed[k])]],
        all_fresh |-> special_result.success \/ failed = <<>>,
        system_error |-> special_result.error]

----------------------------------------------------------------------------
(* Configurations and the initial state *)

CollectionLists == {<<>>, <<"order_c">>, <<"order_m", "order_c">>}

ChainIdLists == {<<>>, <<"1001">>, <<"1002", "1001">>, <<"1001", "abc">>}

SpecialChainIds == {"", "1001", "abc"}

\* Webhooks: none configured, or one.
Webhooks == {"", "https://qyapi.weixin.qq.com/cgi-bin/webhook/send"}

\* A configuration value that no step has read yet.
Unread == "unread"

\* UTC offsets of the zone the machine runs in: UTC, or the reporting zone.
SystemOffsets == {0, CstOffset}

\* The two programs of the repository: the report generator and the
\* stand-alone validator of today's data.
Programs == {"start", "t_connect"}

\* The partitions a run over the given lists can read.
Readable(collections, chain_ids) ==
    {p \in Partitions :
        /\ \E k \in DOMAIN collections : collections[k] = p[1]
        /\ \/ \E k \in DOMAIN chain_ids :
                 chain_ids[k] \in NumericIds /\ IntOf(chain_ids[k]) = p[2]
           \/ \E s \in SpecialChainIds \cap NumericIds : IntOf(s) = p[2]}

\* The configuration never changes during a run.  The two values that are
\* read late (the special chain id at line 198, the webhook when the
\* notifications start) are drawn where they are read, which gives the same
\* runs as drawing them here.  Partitions that no run over the configuration
\* reads hold no documents.
Init ==
    /\ collection_list \in CollectionLists
    /\ chain_id_list \in ChainIdLists
    /\ special_chain_id = Unread
    /\ webhook = Unread
    /\ db \in Databases
    /\ \A p \in Partitions \ Readable(collection_list, chain_id_list) : db[p] = {}
    /\ pc \in Programs
    /\ i = 1
    /\ j = 1
    /\ client = "unbound"
    /\ results = <<>>
    /\ csv = <<>>
    /\ queries = <<>>
    /\ faults = 0
    /\ special_validation_result = NotRun
    /\ yesterday_date = 0
    /\ chain_idx = 1
    /\ sent = <<>>
    /\ pending = "none"
    /\ outcome = "none"
    /\ close_calls = 0
    /\ close_raised = FALSE
    /\ today_results = <<>>

----------------------------------------------------------------------------
(* generate_report (lines 489-860) *)

\* A check that forgets the list of chain ids.
OnlyCollectionsChecked(collections, chain_ids) == collections # <<>>

\* Lines 509-512: neither list may be empty.
ParamsValid(collections, chain_ids) == collections # <<>> /\ chain_ids # <<>>

\* Lines 508-532: the parameters are checked and the CSV header is written.
\* A ValueError leaves through the outer handler (lines 856-860).
ValidateParams ==
    /\ pc = "start"
    /\ IF ~ParamsValid(collection_list, chain_id_list)
       THEN /\ outcome' = "Report generation failed"
            /\ pc' = "done"
       ELSE /\ pc' = "connect"
            /\ UNCHANGED outcome
    /\ UNCHANGED <<collection_list, chain_id_list, special_chain_id, webhook,
                   db, i, j, client, results, csv, queries, faults,
                   special_validation_result, yesterday_date, chain_idx, sent,
                   pending, close_calls, close_raised, today_results>>

\* Lines 548-552: MongoClient(...) binds client, or raises a PyMongoError
\* (an invalid URI, a bad option) before client is bound.
Connect ==
    /\ pc = "connect"
    /\ \E ok \in BOOLEAN :
          IF ok
          THEN /\ client' = "open"
               /\ pc' = "server_info"
               /\ UNCHANGED pending
          ELSE /\ pending' = "Connection failed"
               /\ pc' = "finally"
               /\ UNCHANGED client
    /\ UNCHANGED <<collection_list, chain_id_list, special_chain_id, webhook,
                   db, i, j, results, csv, queries, faults,
                   special_validation_result, yesterday_date, chain_idx, sent,
                   outcome, close_calls, close_raised, today_results>>

\* Line 555: client.server_info() checks the connection.
ServerInfo ==
    /\ pc = "server_info"
    /\ \E ok \in BOOLEAN :
          IF ok
          THEN /\ pc' = "collection"
               /\ UNCHANGED pending
          ELSE /\ pending' = "Connection failed"
               /\ pc' = "finally"
    /\ i' = 1
    /\ UNCHANGED <<collection_list, chain_id_list, special_chain_id, webhook,
                   db, j, client, results, csv, queries, faults,
                   special_validation_result, yesterday_date, chain_idx, sent,
                   outcome, close_calls, close_raised, today_results>>

\* Lines 561-571: the next collection; its estimated size is only logged.
BeginCollection ==
    /\ pc = "collection"
    /\ i <= Len(collection_list)
    /\ queries' = Append(queries, Call("generate_report", "estimated_document_count",
                                       collection_list[i], "", FALSE))
    /\ j' = 1
    /\ pc' = "chain"
    /\ UNCHANGED <<collection_list, chain_id_list, special_chain_id, webhook,
                   db, i, client, results, csv, faults,
                   special_validation_result, yesterday_date, chain_idx, sent,
                   pending, outcome, close_calls, close_raised, today_results>>

\* A writer that keeps the row in memory and leaves the file as it is.
RowBuffered(file, row) == file

\* Lines 700-702 and 722-724: the file is opened for appending, the row is
\* written, and the with block closes the file.
WriteRow(file, row) == Append(file, row)

\* Lines 574-724: one chain id of the current collection.
ProcessChain ==
    /\ pc = "chain"
    /\ \E fault \in ApplicableFaults(db, collection_list[i], chain_id_list[j]) :
          /\ fault # "none" => faults < MaxFaults
          /\ LET r == ProcessChainId(db, collection_list[i], chain_id_list[j], fault)
             IN /\ results' = Append(results, r.row)
                /\ csv' = WriteRow(csv, r.row)
                /\ queries' = queries \o r.calls
          /\ faults' = IF fault = "none" THEN faults ELSE faults + 1
    /\ IF j < Len(chain_id_list)
       THEN /\ j' = j + 1
            /\ UNCHANGED <<i, pc>>
       ELSE /\ j' = 1
            /\ i' = i + 1
            /\ pc' = "collection"
    /\ UNCHANGED <<collection_list, chain_id_list, special_chain_id, webhook,
                   db, client, special_validation_result, yesterday_date, chain_idx,
                   sent, pending, outcome, close_calls, close_raised, today_results>>

\* A summary step that closes the client as soon as the batch is over.
WriteSummaryClosing ==
    /\ pc = "collection"
    /\ i > Len(collection_list)
    /\ \E ok \in BOOLEAN :
          IF ok
          THEN /\ pc' = "special"
               /\ client' = "closed"
               /\ close_calls' = close_calls + 1
               /\ UNCHANGED pending
          ELSE /\ pending' = "Report generation failed"
               /\ pc' = "finally"
               /\ UNCHANGED <<client, close_calls>>
    /\ UNCHANGED <<collection_list, chain_id_list, special_chain_id, webhook,
                   db, i, j, results, csv, queries, faults,
                   special_validation_result, yesterday_date, chain_idx, sent,
                   outcome, close_raised, today_results>>

\* Lines 726-750: the summary is built and written to its file; an OSError
\* of the write is no PyMongoError and leaves through the finally clause.
WriteSummary ==
    /\ pc = "collection"
    /\ i > Len(collection_list)
    /\ \E ok \in BOOLEAN :
          IF ok
          THEN /\ pc' = "special"
               /\ UNCHANGED pending
          ELSE /\ pending' = "Report generation failed"
               /\ pc' = "finally"
    /\ UNCHANGED <<collection_list, chain_id_list, special_chain_id, webhook,
                   db, i, j, client, results, csv, queries, faults,
                   special_validation_result, yesterday_date, chain_idx, sent,
                   outcome, close_calls, close_raised, today_results>>

\* Lines 198-238 of validate_special_chain_today_data, called at line 757.
SpecialBegin ==
    /\ pc = "special"
    /\ special_chain_id' \in SpecialChainIds
    /\ IF special_chain_id' = ""
       THEN /\ special_validation_result' = SpecialDisabled
            /\ pc' = "notify"
       ELSE IF special_chain_id' \notin NumericIds
       THEN /\ special_validation_result' = SpecialInvalid(special_chain_id')
            /\ pc' = "notify"
       ELSE /\ special_validation_result' = SpecialStarted(special_chain_id')
            /\ pc' = "special_loop"
    /\ i' = 1
    /\ UNCHANGED <<collection_list, chain_id_list, webhook,
                   db, j, client, results, csv, queries, faults,
                   yesterday_date, chain_idx, sent, pending, outcome,
                   close_calls, close_raised, today_results>>

\* A strict validation that enters the collection it checked in the rows of
\* the general report.
SpecialCollectionLogged ==
    /\ pc = "special_loop"
    /\ i <= Len(collection_list)
    /\ \E fault \in SpecialFaults, written \in ConcurrentWrites :
          /\ fault # "none" => faults < MaxFaults /\ written = {}
          /\ LET docs == db[<<collection_list[i], IntOf(special_chain_id)>>]
                 r == ValidateCollection(docs, docs \cup written,
                                         collection_list[i], fault)
             IN special_validation_result' =
                    [special_validation_result EXCEPT
                        !.validation_results = Append(@, r)]
          /\ queries' = queries \o ValidateCalls("validate_special_chain_today_data",
                                                 collection_list[i], special_chain_id, fault)
          /\ faults' = IF fault = "none" THEN faults ELSE faults + 1
    /\ i' = i + 1
    /\ results' = Append(results, ErrorLine(collection_list[i], special_chain_id))
    /\ UNCHANGED <<collection_list, chain_id_list, special_chain_id, webhook,
                   db, j, client, csv, yesterday_date, chain_idx, sent,
                   pending, outcome, close_calls, close_raised, today_results, pc>>

\* Lines 241-321: one collection of the strict validation.
SpecialCollection ==
    /\ pc = "special_loop"
    /\ i <= Len(collection_list)
    /\ \E fault \in SpecialFaults, written \in ConcurrentWrites :
          /\ fault # "none" => faults < MaxFaults /\ written = {}
          /\ LET docs == db[<<collection_list[i], IntOf(special_chain_id)>>]
                 r == ValidateCollection(docs, docs \cup written,
                                         collection_list[i], fault)
             IN special_validation_result' =
                    [special_validation_result EXCEPT
                        !.validation_results = Append(@, r)]
          /\ queries' = queries \o ValidateCalls("validate_special_chain_today_data",
                                                 collection_list[i], special_chain_id, fault)
          /\ faults' = IF fault = "none" THEN faults ELSE faults + 1
    /\ i' = i + 1
    /\ UNCHANGED <<collection_list, chain_id_list, special_chain_id, webhook,
                   db, j, client, results, csv, yesterday_date, chain_idx, sent,
                   pending, outcome, close_calls, close_raised, today_results, pc>>

\* Lines 323-348: the overall result of the strict validation.
SpecialFinish ==
    /\ pc = "special_loop"
    /\ i > Len(collection_list)
    /\ LET validation_results == special_validation_result.validation_results
       IN special_validation_result' =
              [special_validation_result EXCEPT
                  !.success = OverallSuccess(validation_results),
                  !.total_collections = Len(validation_results),
                  !.successful_collections = SuccessfulCollections(validation_results),
                  !.failed_collections = FailedCollections(validation_results),
                  !.complete = TRUE]
    /\ pc' = "notify"
    /\ UNCHANGED <<collection_list, chain_id_list, special_chain_id, webhook,
                   db, i, j, client, results, csv, queries, faults,
                   yesterday_date, chain_idx, sent, pending, outcome,
                   close_calls, close_raised, today_results>>

\* Lines 771-787: without a webhook the summary is returned; otherwise the
\* rows are grouped by chain and yesterday's date is taken from the
\* machine's wall clock.
NotifyBegin ==
    /\ pc = "notify"
    /\ webhook' \in Webhooks
    /\ IF webhook' # ""
       THEN /\ \E offset \in SystemOffsets : yesterday_date' = LocalToday(offset) - 1
            /\ chain_idx' = 1
            /\ pc' = "notify_chain"
            /\ UNCHANGED pending
       ELSE /\ pending' = "summary"
            /\ pc' = "finally"
            /\ UNCHANGED <<yesterday_date, chain_idx>>
    /\ UNCHANGED <<collection_list, chain_id_list, special_chain_id,
                   db, i, j, client, results, csv, queries, faults,
                   special_validation_result, sent, outcome,
                   close_calls, close_raised, today_results>>

\* A delivery that is not followed by a pause.
DeliverWithoutPause(message, ok) == <<[op |-> "send", ok |-> ok, message |-> message]>>

\* Lines 829-832 and 839-840: send_wechat_notification, then time.sleep(1).
Deliver(message, ok) ==
    <<[op |-> "send", ok |-> ok, message |-> message],
      [op |-> "sleep", ok |-> TRUE, message |-> message]>>

\* A loop that gives up the remaining chains when a send fails.
StopOnFailure(idx, ok, last) == IF ok THEN idx + 1 ELSE last + 1

\* Lines 790 and 829: the value send_wechat_notification returns is not
\* looked at, and the loop goes on to the next chain.
NextChain(idx, ok, last) == idx + 1

\* Lines 790-832: the message of one chain is built, sent, and followed by
\* the pause.  send_wechat_notification returns False on every failure.
NotifyChain ==
    /\ pc = "notify_chain"
    /\ chain_idx <= Len(ChainDataKeys(results))
    /\ LET chain_id == ChainDataKeys(results)[chain_idx]
           items == ChainItems(results, chain_id)
           anomalies == Anomalies(items, yesterday_date)
           message == FormatChainMarkdownMessage(chain_id, items, anomalies)
       IN \E ok \in BOOLEAN :
             /\ ~ok => faults < MaxFaults
             /\ faults' = IF ok THEN faults ELSE faults + 1
             /\ sent' = sent \o Deliver(message, ok)
             /\ chain_idx' = NextChain(chain_idx, ok, Len(ChainDataKeys(results)))
    /\ UNCHANGED <<collection_list, chain_id_list, special_chain_id, webhook,
                   db, pc, i, j, client, results, csv, queries,
                   special_validation_result, yesterday_date, pending, outcome,
                   close_calls, close_raised, today_results>>

\* Lines 834-845: the report of the strict validation, then return summary.
NotifySpecial ==
    /\ pc = "notify_chain"
    /\ chain_idx > Len(ChainDataKeys(results))
    /\ IF special_validation_result.enabled
       THEN LET message == FormatSpecialValidationMessage(special_validation_result)
            IN \E ok \in BOOLEAN :
                  /\ ~ok => faults < MaxFaults
                  /\ faults' = IF ok THEN faults ELSE faults + 1
                  /\ sent' = sent \o Deliver(message, ok)
       ELSE UNCHANGED <<sent, faults>>
    /\ pending' = "summary"
    /\ pc' = "finally"
    /\ UNCHANGED <<collection_list, chain_id_list, special_chain_id, webhook,
                   db, i, j, client, results, csv, queries,
                   special_validation_result, yesterday_date, chain_idx, outcome,
                   close_calls, close_raised, today_results>>

\* Lines 851-860: client.close() in the finally clause.  With client never
\* bound the name lookup raises UnboundLocalError, which replaces the pending
\* return value and is answered by the outer handler.
Finally ==
    /\ pc = "finally"
    /\ IF client = "unbound"
       THEN /\ close_raised' = TRUE
            /\ outcome' = "Report generation failed"
            /\ UNCHANGED <<client, close_calls>>
       ELSE /\ client' = "closed"
            /\ close_calls' = close_calls + 1
            /\ outcome' = pending
            /\ UNCHANGED close_raised
    /\ pc' = "done"
    /\ UNCHANGED <<collection_list, chain_id_list, special_chain_id, webhook,
                   db, i, j, results, csv, queries, faults,
                   special_validation_result, yesterday_date, chain_idx, sent,
                   pending, today_results>>

----------------------------------------------------------------------------
(* main of validate_today_data.py (lines 294-385) *)

\* format_validation_report (lines 215-291): the counts and one line per
\* failed result with its problem, first match wins (lines 266-274).
FormatValidationReport(validation_results) ==
    LET NotOk(r) == ~r.result.success
        failed == SelectSeq(validation_results, NotOk)
    IN [kind |-> "today",
        failed_validations |-> Len(failed),
        total_validations |-> Len(validation_results),
        anomalies |-> [k \in DOMAIN failed |->
                          [chain_id |-> failed[k].chain_id,
                           display_table |-> DisplayTable(failed[k].result.collection),
                           problem |-> Problem(failed[k].result)]],
        all_fresh |-> failed = <<>>]

\* Lines 312-317: MongoClient(...).
TodayConnect ==
    /\ pc = "t_connect"
    /\ \E ok \in BOOLEAN :
          IF ok
          THEN /\ client' = "open"
               /\ pc' = "t_server_info"
               /\ UNCHANGED pending
          ELSE /\ pending' = "False"
               /\ pc' = "t_finally"
               /\ UNCHANGED client
    /\ UNCHANGED <<collection_list, chain_id_list, special_chain_id, webhook,
                   db, i, j, results, csv, queries, faults,
                   special_validation_result, yesterday_date, chain_idx, sent,
                   outcome, close_calls, close_raised, today_results>>

\* Line 320: client.server_info().
TodayServerInfo ==
    /\ pc = "t_server_info"
    /\ \E ok \in BOOLEAN :
          IF ok
          THEN /\ pc' = "t_validate"
               /\ UNCHANGED pending
          ELSE /\ pending' = "False"
               /\ pc' = "t_finally"
    /\ UNCHANGED <<collection_list, chain_id_list, special_chain_id, webhook,
                   db, i, j, client, results, csv, queries, faults,
                   special_validation_result, yesterday_date, chain_idx, sent,
                   outcome, close_calls, close_raised, today_results>>

\* validate_all_chains_today_data (lines 160-191): one pair of the two loops.
TodayValidate ==
    /\ pc = "t_validate"
    /\ i <= Len(collection_list)
    /\ IF chain_id_list = <<>>
       THEN /\ i' = i + 1
            /\ UNCHANGED <<j, today_results, queries, faults>>
       ELSE /\ \E fault \in SpecialFaults, written \in ConcurrentWrites :
                  /\ fault # "none" =>
                        faults < MaxFaults /\ chain_id_list[j] \in NumericIds
                  /\ (fault # "none" \/ chain_id_list[j] \notin NumericIds) =>
                        written = {}
                  /\ today_results' =
                        Append(today_results,
                               ValidateTodayCreateTime(db, collection_list[i],
                                                       chain_id_list[j], fault,
                                                       written))
                  /\ queries' = queries \o TodayCalls(collection_list[i], chain_id_list[j], fault)
                  /\ faults' = IF fault = "none" THEN faults ELSE faults + 1
            /\ IF j < Len(chain_id_list)
               THEN /\ j' = j + 1
                    /\ UNCHANGED i
               ELSE /\ j' = 1
                    /\ i' = i + 1
    /\ UNCHANGED <<collection_list, chain_id_list, special_chain_id, webhook,
                   db, pc, client, results, csv, special_validation_result,
                   yesterday_date, chain_idx, sent, pending, outcome,
                   close_calls, close_raised>>

\* Lines 326-371: the results are saved, reported when a webhook is set, and
\* main returns True.
TodayReport ==
    /\ pc = "t_validate"
    /\ i > Len(collection_list)
    /\ webhook' \in Webhooks
    /\ IF webhook' # "" /\ today_results # <<>>
       THEN \E ok \in BOOLEAN :
               /\ ~ok => faults < MaxFaults
               /\ faults' = IF ok THEN faults ELSE faults + 1
               /\ sent' = Append(sent, [op |-> "send", ok |-> ok,
                                        message |-> FormatValidationReport(today_results)])
       ELSE UNCHANGED <<sent, faults>>
    /\ pending' = "True"
    /\ pc' = "t_finally"
    /\ UNCHANGED <<collection_list, chain_id_list, special_chain_id,
                   db, i, j, client, results, csv, queries,
                   special_validation_result, yesterday_date, chain_idx, outcome,
                   close_calls, close_raised, today_results>>

\* Lines 376-380: the finally clause closes client only when it is bound.
TodayFinally ==
    /\ pc = "t_finally"
    /\ IF client = "unbound"
       THEN UNCHANGED <<client, close_calls>>
       ELSE /\ client' = "closed"
            /\ close_calls' = close_calls + 1
    /\ outcome' = pending
    /\ pc' = "done"
    /\ UNCHANGED <<collection_list, chain_id_list, special_chain_id, webhook,
                   db, i, j, results, csv, queries, faults,
                   special_validation_result, yesterday_date, chain_idx, sent,
                   pending, close_raised, today_results>>

----------------------------------------------------------------------------

Next ==
    \/ ValidateParams
    \/ Connect
    \/ ServerInfo
    \/ BeginCollection
    \/ ProcessChain
    \/ WriteSummary
    \/ SpecialBegin
    \/ SpecialCollection
    \/ SpecialFinish
    \/ NotifyBegin
    \/ NotifyChain
    \/ NotifySpecial
    \/ Finally
    \/ TodayConnect
    \/ TodayServerInfo
    \/ TodayValidate
    \/ TodayReport
    \/ TodayFinally

Spec == Init /\ [][Next]_vars

----------------------------------------------------------------------------
(* Vocabulary of the properties *)

\* Chain ids that int() rejects.
InvalidIds == ChainIds \ NumericIds

\* The count a row adds to a total: an error row adds nothing.
WindowedCount(row) == IF IsIntRow(row) THEN row.record_count.n ELSE 0

\* Position of the first occurrence of e in seq.
Pos(seq, e) == CHOOSE k \in DOMAIN seq : seq[k] = e /\ \A m \in 1..(k - 1) : seq[m] # e

IsChainSend(entry) == entry.op = "send" /\ entry.message.kind = "chain"

IsSpecialSend(entry) == entry.op = "send" /\ entry.message.kind = "special"

\* The messages sent for the chains, in the order of sending.
ChainMessages ==
    LET sends == SelectSeq(sent, IsChainSend)
    IN [k \in DOMAIN sends |-> sends[k].message]

\* The name under which the message of a chain shows a collection: the
\* name is looked up at line 806 and the result again at line 474.
ShownName(collection_name) == DisplayTable(DisplayTable(collection_name))

\* The message of a chain lists the collection among its anomalies.
Listed(message, collection_name) ==
    \E a \in DOMAIN message.anomalies :
        message.anomalies[a].display_table = ShownName(collection_name)

\* The strict per-table results produced so far, by either validator.
StrictResults ==
    {special_validation_result.validation_results[k] :
        k \in DOMAIN special_validation_result.validation_results}
    \cup {today_results[k].result : k \in DOMAIN today_results}

----------------------------------------------------------------------------
(* C1 *)

\* C1: under the general policy an anomaly is reported for an evaluated
\* (table, partition) result if and only if the civil date of its latest
\* timestamp differs from the day before the run; a result without a latest
\* timestamp is always reported.
C1_GeneralAnomalyIffNotYesterday ==
    \A m \in DOMAIN ChainMessages : \A r \in DOMAIN results :
        (IsIntRow(results[r]) /\ results[r].chain_id = ChainMessages[m].chain_id)
        => (Listed(ChainMessages[m], results[r].collection)
            <=> \/ results[r].max_time.type # "datetime"
                \/ CivilDate(results[r].max_time.t) # CivilDate(Now) - 1)

----------------------------------------------------------------------------
(* C2 *)

\* C2: under the strict policy a partition that was evaluated without an
\* error succeeds if and only if its count of today's records is positive and
\* the civil date of its latest timestamp is the day of the run.
C2_StrictSuccessIffTodayDataAndLatestToday ==
    \A r \in StrictResults :
        ~r.error =>
            (r.success <=> /\ r.today_count > 0
                           /\ r.latest_create_time.type = "datetime"
                           /\ CivilDate(r.latest_create_time.t) = CivilDate(Now))

\* A partition with records of today was judged and failed, because its
\* latest record is not of today.
C2_Witness ==
    \E r \in StrictResults :
        ~r.error /\ ~r.success /\ r.today_count > 0 /\ ~r.is_latest_today

----------------------------------------------------------------------------
(* C3 *)

\* The category the priority order assigns to a failed strict result.
Category(r) ==
    IF r.error THEN "QueryError"
    ELSE IF r.today_count = 0 THEN "NoTodayData"
    ELSE IF ~r.is_latest_today THEN "LatestNotToday"
    ELSE "DataAbnormal"

FailedOf(rs) == LET NotOk(r) == ~r.success IN SelectSeq(rs, NotOk)

\* C3: every failed strict result is shown with exactly one category, chosen
\* in the order QueryError, NoTodayData, LatestNotToday; the lines of the
\* report follow the failed results one to one.
C3_OneCategoryByPriority ==
    /\ \A s \in DOMAIN sent :
          IsSpecialSend(sent[s]) /\ ~special_validation_result.error =>
              LET failed == FailedOf(special_validation_result.validation_results)
                  shown == sent[s].message.anomalies
              IN /\ Len(shown) = Len(failed)
                 /\ \A k \in DOMAIN failed : shown[k].problem = Category(failed[k])
    /\ \A s \in DOMAIN sent :
          (sent[s].op = "send" /\ sent[s].message.kind = "today") =>
              LET Res(k) == today_results[k].result
                  failed == FailedOf([k \in DOMAIN today_results |-> Res(k)])
                  shown == sent[s].message.anomalies
              IN /\ Len(shown) = Len(failed)
                 /\ \A k \in DOMAIN failed : shown[k].problem = Category(failed[k])

\* A strict report was sent that shows a query error, which also has no
\* data of today, next to a partition whose latest record is not of today
\* although it has records of today.
C3_Witness ==
    \E s \in DOMAIN sent :
        /\ IsSpecialSend(sent[s])
        /\ \E k1, k2 \in DOMAIN sent[s].message.anomalies :
              /\ sent[s].message.anomalies[k1].problem = "QueryError"
              /\ sent[s].message.anomalies[k2].problem = "LatestNotToday"

----------------------------------------------------------------------------
(* C4 *)

\* C4: a chain id that is no integer gets an error result with counts 0 and
\* not a single storage call, in the general batch, in the strict validation
\* of the special chain and in the stand-alone validator.
C4_InvalidIdErrorWithoutStorageCalls ==
    /\ \A k \in DOMAIN queries : queries[k].chain_id \notin InvalidIds
    /\ \A r \in DOMAIN results :
          results[r].chain_id \in InvalidIds =>
              /\ ~IsIntRow(results[r])
              /\ results[r].max_time = ErrorMarker
              /\ WindowedCount(results[r]) = 0
    /\ (special_validation_result.chain_id \in InvalidIds) =>
          /\ special_validation_result.error
          /\ ~special_validation_result.success
          /\ special_validation_result.validation_results = <<>>
          /\ pc # "special_loop"
    /\ \A k \in DOMAIN today_results :
          today_results[k].chain_id \in InvalidIds =>
              /\ today_results[k].result.error
              /\ ~today_results[k].result.success
              /\ today_results[k].result.today_count = 0
              /\ today_results[k].result.total_count = 0

\* A run of the batch is over in which the chain id "abc" was evaluated
\* next to a chain id that was queried, and "abc" was the special chain too.
C4_Witness ==
    /\ pc = "done"
    /\ \E r \in DOMAIN results : results[r].chain_id \in InvalidIds
    /\ \E k \in DOMAIN queries : queries[k].op = "find_one"
    /\ special_validation_result.chain_id \in InvalidIds

----------------------------------------------------------------------------
(* C5 *)

\* The collection is configured at position k and shown under this name.
ShownAt(k, display_table) ==
    k \in DOMAIN collection_list /\ ShownName(collection_list[k]) = display_table

\* C5: the messages of the chains are produced in the order of the
\* configured chain ids, and inside one message the tables are listed in the
\* order of the configured collections, whatever the evaluations ended in.
C5_ConfiguredOrderPreserved ==
    /\ \A m1, m2 \in DOMAIN ChainMessages :
          m1 < m2 => Pos(chain_id_list, ChainMessages[m1].chain_id)
                     < Pos(chain_id_list, ChainMessages[m2].chain_id)
    /\ \A m \in DOMAIN ChainMessages :
          \A a1, a2 \in DOMAIN ChainMessages[m].anomalies :
              a1 < a2 =>
                  \E k1, k2 \in DOMAIN collection_list :
                      /\ k1 < k2
                      /\ ShownAt(k1, ChainMessages[m].anomalies[a1].display_table)
                      /\ ShownAt(k2, ChainMessages[m].anomalies[a2].display_table)

----------------------------------------------------------------------------
(* C6 *)

\* The row of the general batch for a collection and a chain id.
RowsOf(collection_name, chain_id) ==
    {r \in DOMAIN results : results[r].collection = collection_name
                            /\ results[r].chain_id = chain_id}

\* C6: a storage call that raises while a pair is evaluated makes the result
\* of that pair, and of no other pair, an error result; the batch goes on,
\* and the results are one per configured pair, in the order of evaluation.
C6_StorageErrorBecomesErrorResult ==
    /\ \A q \in DOMAIN queries :
          (queries[q].caller = "generate_report" /\ queries[q].raised
           /\ db[<<queries[q].collection, IntOf(queries[q].chain_id)>>] # {}) =>
              \A r \in RowsOf(queries[q].collection, queries[q].chain_id) :
                  ~IsIntRow(results[r])
    /\ \A r \in DOMAIN results :
          (~IsIntRow(results[r]) /\ results[r].chain_id \in NumericIds) =>
              \E q \in DOMAIN queries :
                  /\ queries[q].caller = "generate_report" /\ queries[q].raised
                  /\ queries[q].collection = results[r].collection
                  /\ queries[q].chain_id = results[r].chain_id
    /\ \A r \in DOMAIN results :
          /\ results[r].collection =
                 collection_list[((r - 1) \div Len(chain_id_list)) + 1]
          /\ results[r].chain_id =
                 chain_id_list[((r - 1) % Len(chain_id_list)) + 1]
    /\ pc = "special" => Len(results) = Len(collection_list) * Len(chain_id_list)

----------------------------------------------------------------------------
(* C7 *)

\* C7: an evaluation that ended in an error is an anomaly of its chain: the
\* message of the chain lists the table and does not say that all data is
\* fresh.
C7_ErroredEvaluationIsAnomaly ==
    \A m \in DOMAIN ChainMessages : \A r \in DOMAIN results :
        (~IsIntRow(results[r]) /\ results[r].chain_id = ChainMessages[m].chain_id) =>
            /\ ~ChainMessages[m].all_fresh
            /\ Listed(ChainMessages[m], results[r].collection)

----------------------------------------------------------------------------
(* C8 *)

\* C8: once the run has tried to open the client, the finally clause
\* releases it without raising, and a connection failure ends the run with
\* the connection-failure outcome.
C8_ReleaseWithoutRaisingOnEveryPath ==
    (pc = "done" /\ pending # "none") =>
        /\ ~close_raised
        /\ client \in {"closed", "unbound"}
        /\ pending \in {"Connection failed", "False"} => outcome = pending

----------------------------------------------------------------------------
(* C9 *)

\* The documents of the partition a row of the general batch was read from.
DocsOf(row) == db[<<row.collection, IntOf(row.chain_id)>>]

\* C9: a result without a latest timestamp has a windowed count of 0 and is
\* not fresh today; a partition without records and a partition whose
\* create_time cannot be processed both give such a result.
C9_AbsentLatestMeansZeroAndNotFresh ==
    /\ \A r \in DOMAIN results :
          results[r].max_time.type # "datetime" => WindowedCount(results[r]) = 0
    /\ \A r \in DOMAIN results :
          (IsIntRow(results[r]) /\ FindLatest(DocsOf(results[r])).type # "datetime") =>
              /\ results[r].max_time = NoneTime
              /\ results[r].record_count = IntCell(0)
    /\ \A r \in StrictResults :
          r.latest_create_time.type # "datetime" =>
              ~r.is_latest_today /\ ~r.success

\* The batch has a row for a partition without records and a row for a
\* partition whose only create_time is a string in no known format.
C9_Witness ==
    \E r1, r2 \in DOMAIN results :
        /\ IsIntRow(results[r1]) /\ DocsOf(results[r1]) = {}
        /\ results[r1].max_time = NoneTime
        /\ IsIntRow(results[r2]) /\ DocsOf(results[r2]) = {MalformedString}
        /\ results[r2].max_time = NoneTime

----------------------------------------------------------------------------
(* C10 *)

\* C10: the date of a stored create_time is its calendar date in the
\* reporting zone wherever it is compared: the anomaly check of the general
\* batch lists a row with a latest time exactly when that date is not
\* yesterday's, and the strict check takes a latest time as today's exactly
\* when that date is today's.
C10_CivilDateInReportingZoneEverywhere ==
    /\ \A m \in DOMAIN ChainMessages : \A r \in DOMAIN results :
          (/\ IsIntRow(results[r])
           /\ results[r].chain_id = ChainMessages[m].chain_id
           /\ results[r].max_time.type = "datetime") =>
              (Listed(ChainMessages[m], results[r].collection)
               <=> CivilDate(results[r].max_time.t) # yesterday_date)
    /\ \A r \in StrictResults :
          r.latest_create_time.type = "datetime" =>
              (r.is_latest_today <=> CivilDate(r.latest_create_time.t) = CivilDate(Now))

----------------------------------------------------------------------------
(* C11 *)

\* The pair evaluated k-th by the loops of generate_report.
PairAt(k) ==
    [collection |-> collection_list[((k - 1) \div Len(chain_id_list)) + 1],
     chain_id |-> chain_id_list[((k - 1) % Len(chain_id_list)) + 1]]

\* The number of evaluations the batch has completed.
Completed ==
    CASE pc \in {"start", "connect", "server_info"} -> 0
      [] pc = "collection" -> (i - 1) * Len(chain_id_list)
      [] pc = "chain" -> (i - 1) * Len(chain_id_list) + (j - 1)
      [] pc \in {"special", "special_loop", "notify", "notify_chain"} ->
             Len(collection_list) * Len(chain_id_list)
      [] OTHER -> Len(results)

\* The evaluation of the pair ended in the handler of line 711: the chain id
\* is no integer, or find_one raised.
EndedInHandler(pair) ==
    \/ pair.chain_id \in InvalidIds
    \/ \E q \in DOMAIN queries :
          /\ queries[q].caller = "generate_report" /\ queries[q].op = "find_one"
          /\ queries[q].raised
          /\ queries[q].collection = pair.collection
          /\ queries[q].chain_id = pair.chain_id

----------------------------------------------------------------------------
(* C12 *)

\* The row was read from a partition whose latest create_time is a string
\* in none of the known formats.
LatestMalformed(row) ==
    row.chain_id \in NumericIds /\ FindLatest(DocsOf(row)).type = "str"

\* C12: a latest create_time that matches no known format makes the result
\* of its partition an error or an anomaly: the row is the error line, or
\* the message of the chain lists the table; it is never an ordinary row
\* with an empty time that no message mentions.
C12_MalformedTimestampIsErrorOrAnomaly ==
    \A r \in DOMAIN results :
        LatestMalformed(results[r]) =>
            \/ ~IsIntRow(results[r])
            \/ \A m \in DOMAIN ChainMessages :
                   ChainMessages[m].chain_id = results[r].chain_id =>
                       Listed(ChainMessages[m], results[r].collection)

----------------------------------------------------------------------------
(* C13 *)

IsFailedSend(entry) == entry.op = "send" /\ ~entry.ok

\* The notification steps leave the results, the rows written and the
\* result of the strict validation as they are.
NotificationKeepsResults ==
    (pc \in {"notify", "notify_chain"}) =>
        /\ results' = results
        /\ csv' = csv
        /\ special_validation_result' = special_validation_result

\* Every delivery was attempted, and the run returned what it returns
\* without a failed delivery.
EveryDeliveryAttempted ==
    /\ (pc = "done" /\ pending = "summary" /\ webhook # "") =>
          /\ Len(ChainMessages) = Len(ChainDataKeys(results))
          /\ \A m \in DOMAIN ChainMessages :
                ChainMessages[m].chain_id = ChainDataKeys(results)[m]
          /\ special_validation_result.enabled =>
                \E s \in DOMAIN sent : IsSpecialSend(sent[s])
          /\ outcome = "summary"
    /\ (pc = "done" /\ pending = "True") => outcome = "True"

\* C13: a delivery that fails changes neither the results, nor the rows
\* written, nor the value the run returns, and the deliveries for the
\* remaining chains and for the strict validation are still attempted.
C13_FailedDeliveryChangesNothing ==
    [](EveryDeliveryAttempted) /\ [][NotificationKeepsResults]_vars

\* A run has ended whose first delivery failed and that went on to deliver
\* the message of a second chain and the report of the strict validation.
C13_Witness ==
    /\ pc = "done" /\ outcome = "summary"
    /\ Len(ChainMessages) = 2
    /\ IsFailedSend(sent[1])
    /\ \E s \in DOMAIN sent : IsSpecialSend(sent[s])

----------------------------------------------------------------------------
(* C14 *)

\* The run is one of generate_report (and not of the stand-alone validator).
InReport ==
    \/ pc \in {"start", "connect", "server_info", "collection", "chain", "special",
               "special_loop", "notify", "notify_chain", "finally"}
    \/ pc = "done" /\ pending \notin {"True", "False"}

\* C14: with an empty list of collections or of chain ids the run ends with
\* a failure before the client is created and before any query: nothing is
\* evaluated, nothing is sent, and there is nothing to close.
C14_ConfigErrorAbortsBeforeStorage ==
    (InReport /\ (collection_list = <<>> \/ chain_id_list = <<>>)) =>
        /\ pc \in {"start", "done"}
        /\ client = "unbound" /\ close_calls = 0 /\ ~close_raised
        /\ queries = <<>> /\ results = <<>> /\ csv = <<>> /\ sent = <<>>
        /\ special_validation_result = NotRun
        /\ pc = "done" => outcome = "Report generation failed"

\* A run with collections but without chain ids has ended.
C14_Witness ==
    /\ InReport /\ pc = "done"
    /\ collection_list # <<>> /\ chain_id_list = <<>>
    /\ outcome = "Report generation failed"

----------------------------------------------------------------------------
(* C15 *)

\* The number of messages sent for the chain id.
PayloadsOf(chain_id) ==
    Cardinality({m \in DOMAIN ChainMessages : ChainMessages[m].chain_id = chain_id})

\* The number of reports of the strict validation that were sent.
SpecialPayloads == Cardinality({s \in DOMAIN sent : IsSpecialSend(sent[s])})

\* C15: with a webhook configured a finished run has sent exactly one
\* message for every configured chain id, also for one whose evaluations
\* all ended in an error, and exactly one report of the strict validation
\* if a special chain id is configured, none otherwise.
C15_OnePayloadPerConfiguredChain ==
    (pc = "done" /\ pending = "summary" /\ webhook # "") =>
        /\ \A k \in DOMAIN chain_id_list : PayloadsOf(chain_id_list[k]) = 1
        /\ Len(ChainMessages) = Len(chain_id_list)
        /\ SpecialPayloads = IF special_chain_id # "" THEN 1 ELSE 0

----------------------------------------------------------------------------
(* C16 *)

\* The sum of the counts of the first k rows of results that belong to the
\* chain and are no error rows.
RECURSIVE CountsOfChain(_, _)
CountsOfChain(chain_id, k) ==
    IF k = 0 THEN 0
    ELSE CountsOfChain(chain_id, k - 1)
         + (IF results[k].chain_id = chain_id THEN WindowedCount(results[k]) ELSE 0)

\* C16: the total of a chain's message is the sum of the counts of exactly
\* that chain's rows that were evaluated without an error; error rows and
\* the rows of other chains add nothing.
C16_TotalIsSumOfOwnCounts ==
    \A m \in DOMAIN ChainMessages :
        ChainMessages[m].total_records
            = CountsOfChain(ChainMessages[m].chain_id, Len(results))

\* A message was sent for a chain that has a row with a positive count and
\* an error row, while another chain has a row with a positive count too.
C16_Witness ==
    \E m \in DOMAIN ChainMessages : \E r1, r2, r3 \in DOMAIN results :
        /\ ChainMessages[m].total_records > 0
        /\ results[r1].chain_id = ChainMessages[m].chain_id /\ ~IsIntRow(results[r1])
        /\ results[r2].chain_id = ChainMessages[m].chain_id /\ WindowedCount(results[r2]) > 0
        /\ results[r3].chain_id # ChainMessages[m].chain_id /\ WindowedCount(results[r3]) > 0

----------------------------------------------------------------------------
(* C17 *)

\* The name is the display name of a configured collection, looked up once.
ResolvedOnce(display_table) ==
    \E k \in DOMAIN collection_list : display_table = DisplayTable(collection_list[k])

\* C17: every anomaly of every message shows its table under the name the
\* mapping gives for the collection, or under the collection's own name if
\* it has no mapping; the mapping is applied once.
C17_DisplayNameResolvedOnce ==
    \A s \in DOMAIN sent :
        sent[s].op = "send" =>
            \A a \in DOMAIN sent[s].message.anomalies :
                ResolvedOnce(sent[s].message.anomalies[a].display_table)

----------------------------------------------------------------------------
(* C18 *)

\* C18: no two deliveries of a run follow each other without a pause
\* between them, from chain to chain and from the last chain to the
\* report of the strict validation.
C18_PauseBetweenDeliveries ==
    \A s \in DOMAIN sent :
        (s < Len(sent) /\ sent[s].op = "send") => sent[s + 1].op = "sleep"

\* Two chain messages and the report of the strict validation were sent.
C18_Witness ==
    /\ Len(ChainMessages) = 2
    /\ SpecialPayloads = 1

----------------------------------------------------------------------------
(* C19 *)

\* The instants of the datetimes stored in the database.
StoredInstants == {d.t : d \in {v \in UNION {db[p] : p \in DOMAIN db} : v.type = "datetime"}}

\* C19: rounding down to the hour is idempotent: for every stored create_time
\* and for every latest time of a row, rounding the rounded value again
\* gives the same value.
C19_RoundDownToHourIdempotent ==
    /\ \A t \in StoredInstants :
          RoundDownToHour(RoundDownToHour(UtcLocalize(t))) = RoundDownToHour(UtcLocalize(t))
    /\ \A r \in DOMAIN results :
          results[r].max_time.type = "datetime" =>
              LET rounded_hour == RoundDownToHour(UtcLocalize(results[r].max_time.t))
              IN RoundDownToHour(rounded_hour) = rounded_hour

\* The batch has rounded a latest time inside an hour and one at a top of
\* the hour.
C19_Witness ==
    \E r1, r2 \in DOMAIN results :
        /\ results[r1].max_time.type = "datetime"
        /\ RoundDownToHour(UtcLocalize(results[r1].max_time.t)).t < results[r1].max_time.t
        /\ results[r2].max_time.type = "datetime"
        /\ RoundDownToHour(UtcLocalize(results[r2].max_time.t)).t = results[r2].max_time.t

----------------------------------------------------------------------------
(* C20 *)

\* The windowed count of the row's pair was issued and raised.
WindowedCountFailed(row) ==
    /\ row.chain_id \in NumericIds
    /\ FindLatest(DocsOf(row)).type = "datetime"
    /\ \E q \in DOMAIN queries :
          /\ queries[q].caller = "generate_report" /\ queries[q].op = "count_documents"
          /\ queries[q].raised
          /\ queries[q].collection = row.collection
          /\ queries[q].chain_id = row.chain_id

\* The row of an evaluation that found the latest record and counted
\* nothing after the top of its hour.
SuccessfulZeroRow(row) ==
    Row(row.collection, row.chain_id, IntCell(0),
        AwareTime(UtcLocalize(FindLatest(DocsOf(row)).t)))

\* C20: when the latest record was found and the windowed count fails, the
\* row of the pair shows the failure: it is not the row that a successful
\* evaluation with a count of 0 writes.
C20_FailedCountIsDistinguishable ==
    \A r \in DOMAIN results :
        WindowedCountFailed(results[r]) => results[r] # SuccessfulZeroRow(results[r])

----------------------------------------------------------------------------
(* C21 *)

\* The top of the hour, on the wall clock of the reporting timezone, that
\* contains the instant.
TopOfHourCst(t) == t - ((t + CstOffset) % TicksPerHour)

\* The latest record of the row's pair was found and its count succeeded.
Counted(row) ==
    /\ IsIntRow(row) /\ row.max_time.type = "datetime"
    /\ ~WindowedCountFailed(row)

\* C21: when the latest record is found and the count succeeds, the count
\* of the row is the number of records of its own partition whose
\* create_time is strictly later than the top of the hour of the latest
\* one; a record at the top of the hour and records of other partitions are
\* not counted.
C21_WindowedCountStrictlyAfterTopOfHour ==
    \A r \in DOMAIN results :
        Counted(results[r]) =>
            results[r].record_count.n =
                Cardinality({d \in DocsOf(results[r]) :
                                /\ d.type = "datetime"
                                /\ d.t > TopOfHourCst(results[r].max_time.t)})

\* One row has its latest record at a top of the hour and counts nothing;
\* another counts its one record although the first partition holds a later
\* one.
C21_Witness ==
    \E r1, r2 \in DOMAIN results :
        /\ Counted(results[r1]) /\ Counted(results[r2])
        /\ TopOfHourCst(results[r1].max_time.t) = results[r1].max_time.t
        /\ results[r1].record_count.n = 0
        /\ results[r2].record_count.n = 1
        /\ results[r2].max_time.t < results[r1].max_time.t

----------------------------------------------------------------------------
(* C22 *)

\* The strict validation ran to its end for a strict chain id that is an
\* integer.
StrictEvaluated ==
    /\ special_validation_result.complete
    /\ special_validation_result.enabled
    /\ special_chain_id \in NumericIds

\* A storage call of the strict validation for the collection raised.
StrictCallRaised(collection_name) ==
    \E q \in DOMAIN queries :
        /\ queries[q].caller = "validate_special_chain_today_data"
        /\ queries[q].collection = collection_name
        /\ queries[q].raised

\* C22: after a strict evaluation with a valid strict chain id there is one
\* entry per configured collection, in the configured order; the numbers of
\* successful and failed collections add up to the total, which is the number
\* of configured collections; the overall success holds exactly when every
\* entry succeeded; and an entry is an error entry exactly when a storage
\* call for its own collection raised, the other collections being
\* evaluated all the same.
C22_OneEntryPerCollectionAndTotalsAgree ==
    StrictEvaluated =>
        LET result == special_validation_result
            entries == result.validation_results
        IN /\ Len(entries) = Len(collection_list)
           /\ \A k \in DOMAIN entries : entries[k].collection = collection_list[k]
           /\ result.total_collections = Len(collection_list)
           /\ result.successful_collections + result.failed_collections
                  = result.total_collections
           /\ result.successful_collections >= 0
           /\ result.failed_collections >= 0
           /\ result.success <=> \A k \in DOMAIN entries : entries[k].success
           /\ \A k \in DOMAIN entries :
                  /\ entries[k].error <=> StrictCallRaised(entries[k].collection)
                  /\ entries[k].error => ~entries[k].success

\* Two collections were evaluated: the first one failed with an error, the
\* second one succeeded, and the overall result is a failure.
C22_Witness ==
    /\ StrictEvaluated
    /\ Len(special_validation_result.validation_results) = 2
    /\ special_validation_result.validation_results[1].error
    /\ special_validation_result.validation_results[2].success
    /\ ~special_validation_result.success
    /\ special_validation_result.failed_collections = 1

----------------------------------------------------------------------------
(* C23 *)

\* C23: the fallback label of the final else branch is never shown, because
\* a failed result without an error always has no record of today or a
\* latest record that is not of today; and the only anomaly of the general
\* policy is a latest date that differs from yesterday's.
C23_FallbackCategoryUnreachable ==
    /\ \A r \in StrictResults :
          (~r.success /\ ~r.error) => (r.today_count = 0 \/ ~r.is_latest_today)
    /\ \A s \in DOMAIN sent :
          (sent[s].op = "send" /\ sent[s].message.kind \in {"special", "today"}) =>
              \A k \in DOMAIN sent[s].message.anomalies :
                  sent[s].message.anomalies[k].problem
                      \in {"QueryError", "NoTodayData", "LatestNotToday"}
    /\ \A m \in DOMAIN ChainMessages :
          \A k \in DOMAIN ChainMessages[m].anomalies :
              ChainMessages[m].anomalies[k].max_time # yesterday_date

\* A report of the strict validation shows a collection without a record of
\* today next to a result that passed, after a chain message with an
\* anomaly of the general policy.
C23_Witness ==
    /\ \E r \in StrictResults : r.success
    /\ \E s \in DOMAIN sent :
          /\ IsSpecialSend(sent[s])
          /\ \E k \in DOMAIN sent[s].message.anomalies :
                sent[s].message.anomalies[k].problem = "NoTodayData"
    /\ \E m \in DOMAIN ChainMessages : ChainMessages[m].anomalies # <<>>

----------------------------------------------------------------------------
(* C24 *)

\* A step of the strict validation leaves the rows of the general report
\* and the row log as they are.
StrictKeepsGeneral ==
    pc \in {"special", "special_loop"} => UNCHANGED <<results, csv>>

\* The message of every chain is made of the rows of the general report and
\* of yesterday's date alone.
GeneralFromRowsAlone ==
    LET keys == ChainDataKeys(results)
        messages == ChainMessages
    IN \A m \in DOMAIN messages :
          /\ m <= Len(keys)
          /\ LET items == ChainItems(results, keys[m])
             IN messages[m] =
                    FormatChainMarkdownMessage(keys[m], items,
                                               Anomalies(items, yesterday_date))

\* C24: the strict validation is kept apart from the general results: no
\* step of it changes the rows of the general report or the row log, and
\* the message of every chain, the strict chain included, has the totals and
\* the anomalies of those rows whether or not a strict chain is configured.
C24_StrictEvaluationKeptSeparate ==
    [](GeneralFromRowsAlone) /\ [][StrictKeepsGeneral]_vars

\* The strict validation failed a collection of the chain whose general
\* message, sent afterwards, reports no anomaly.
C24_Witness ==
    /\ StrictEvaluated
    /\ ~special_validation_result.success
    /\ \E m \in DOMAIN ChainMessages :
          /\ ChainMessages[m].chain_id = special_chain_id
          /\ ChainMessages[m].all_fresh
          /\ ChainMessages[m].total_records > 0

----------------------------------------------------------------------------
(* C25 *)

\* C25: the report of the strict validation carries the section "all data
\* is up to date, no anomalies" if and only if the overall result is a
\* success; a failed result, also one with nothing but a system error,
\* never carries it.
C25_AllFreshSectionIffSuccess ==
    \A s \in DOMAIN sent :
        IsSpecialSend(sent[s]) =>
            (sent[s].message.all_fresh <=> special_validation_result.success)

----------------------------------------------------------------------------
(* C26 *)

\* The positions of a run up to the check of the connection.
BeforeCheck == {"start", "connect", "server_info", "t_connect", "t_server_info"}

\* A step that issues a storage query is taken with the client open and
\* not yet closed, and leaves it open.
QueryInsideSession ==
    queries' # queries =>
        /\ client = "open" /\ client' = "open"
        /\ close_calls = 0
        /\ pc \notin BeforeCheck

\* No query precedes the successful check of the connection, a run whose
\* connection failed has issued none, the client is closed at most once, and
\* a run that opened it has closed it once when it ends.
SessionBrackets ==
    /\ pc \in BeforeCheck => queries = <<>>
    /\ pending \in {"Connection failed", "False"} => queries = <<>>
    /\ queries # <<>> => client \in {"open", "closed"}
    /\ close_calls <= 1
    /\ client = "closed" <=> close_calls = 1
    /\ pc = "done" /\ client # "unbound" => client = "closed"

\* C26: every storage query of the general batch, of the strict validation
\* and of the stand-alone validator is issued after server_info() succeeded
\* and before client.close(); no query follows the close, and a run that
\* opened the client closes it exactly once.
C26_QueriesBetweenCheckAndRelease ==
    [](SessionBrackets) /\ [][QueryInsideSession]_vars

\* A run has ended and closed its client after queries of the general batch
\* and of the strict validation.
C26_Witness ==
    /\ pc = "done" /\ close_calls = 1
    /\ \E q \in DOMAIN queries :
          /\ queries[q].caller = "generate_report"
          /\ queries[q].op = "count_documents"
    /\ \E q \in DOMAIN queries :
          /\ queries[q].caller = "validate_special_chain_today_data"
          /\ queries[q].op = "find_one"

----------------------------------------------------------------------------
(* C27 *)

\* C27: every result of the strict validation and of the stand-alone
\* validator that was produced without an error and whose latest record is
\* of today has counted at least one record of today, also when another
\* writer inserts a record between the count and the read of the latest
\* record.
C27_LatestTodayImpliesTodayCount ==
    \A r \in StrictResults :
        (~r.error /\ r.is_latest_today) => r.today_count >= 1

====
